---- MODULE Spec2Model ----
(***************************************************************************)
(* Model of backend/pdf_extractor.py: the disk-backed LRU asset cache      *)
(* (PDFAssetManager) and the paginated extraction pipeline (PDFExtractor). *)
(***************************************************************************)
EXTENDS Integers, Sequences, FiniteSets, TLC

(***************************************************************************)
(* Bounds of the model.                                                    *)
(***************************************************************************)
\* largest max_items a PDFAssetManager is constructed with
MaxItems == 2
\* longest sequence of register/get calls made on the cache on its own
MaxOps == 4
\* largest page count of a document
MaxPages == 2
\* calls each thread makes on the shared cache
ThreadCalls == 2
\* most images embedded in the page of a one-page document
MaxImages == 3
\* largest cache_size a TTSService is constructed with
MaxCacheSize == 2
\* generate_audio calls made one after the other
AudioCalls == 3
\* generate_audio calls each of the concurrent tasks makes
TaskCalls == 2

\* Python's None where a dict was expected: get()'s not-found
NotFound == [found |-> FALSE, path |-> <<>>, content_type |-> ""]
\* no path: the value of a call that raised
NoPath == <<>>

VARIABLES
    max_items,   \* PDFAssetManager.max_items
    registry,    \* PDFAssetManager._registry: OrderedDict as a sequence, oldest first
    files,       \* the backing directory: path -> bytes, for the files that exist
    log,         \* history: the register/get calls made so far, with their results
    doc,         \* the document at pdf_path, as fitz answers for it
    validate,    \* extract's validate argument
    file_token,  \* extract's file_token
    pc,          \* where extract is: start, opened, validated, pages, returned, raised
    error,       \* what extract raised: none, open, metadata
    handle,      \* the fitz.Document handle: none, open, closed
    closes,      \* history: how many times doc.close() ran
    validation,  \* extract's validation
    pages,       \* extract's pages
    page_index,  \* extract's page loop: pages done so far
    threads,     \* the threads calling the shared cache: where each is in its call
    probe,       \* what get_page_count returned, once it was called
    earlier,     \* history: what the images of the extraction before resolved to
    cache_size,  \* TTSService.cache_size
    tts_cache,   \* TTSService.cache: OrderedDict as a sequence of [key, path]
    tmp_files,   \* the audio files that exist in /tmp
    made,        \* history: the temporary files generate_audio created, in order
    tts_log,     \* history: the generate_audio calls that ended, and removals
    tasks        \* the asyncio tasks in generate_audio: where each is

cacheVars == <<max_items, registry, files, log>>
extractVars == <<doc, validate, file_token, pc, error, handle, closes,
                 validation, pages, page_index>>
ttsVars == <<cache_size, tts_cache, tmp_files, made, tts_log, tasks>>
vars == <<max_items, registry, files, log, doc, validate, file_token, pc, error,
          handle, closes, validation, pages, page_index, threads, probe, earlier,
          cache_size, tts_cache, tmp_files, made, tts_log, tasks>>

(***************************************************************************)
(* Values.                                                                 *)
(***************************************************************************)
BaseDir == "/tmp/bookaudio_pdf_assets"

\* f"{file_token}_p{page_index + 1}_{image_pos}.{ext}"
ImageId(token, page_number, image_pos, ext) ==
    <<token, page_number, image_pos, ext>>

\* mimetypes.types_map.get(f".{ext}", "image/png")
GuessType(ext) ==
    CASE ext = "png"  -> "image/png"
      [] ext = "jpeg" -> "image/jpeg"
      [] OTHER        -> "image/png"

\* self.base_dir / image_id
PathOf(image_id) == <<BaseDir, image_id>>

(***************************************************************************)
(* OrderedDict operations on a sequence of [id, path, content_type].       *)
(***************************************************************************)
Keys(reg) == {reg[i].id : i \in 1..Len(reg)}

Resident(reg, image_id) == image_id \in Keys(reg)

IndexOf(reg, image_id) == CHOOSE i \in 1..Len(reg) : reg[i].id = image_id

\* OrderedDict.get(key): the value, or None
DictGet(reg, image_id) ==
    IF Resident(reg, image_id)
    THEN [found |-> TRUE, path |-> reg[IndexOf(reg, image_id)].path,
          content_type |-> reg[IndexOf(reg, image_id)].content_type]
    ELSE NotFound

\* d.setdefault(key, value): an existing key keeps its value
DictSetDefault(reg, image_id, path, content_type) ==
    IF Resident(reg, image_id)
    THEN reg
    ELSE Append(reg, [id |-> image_id, path |-> path, content_type |-> content_type])

\* d[key] = value on a list of pairs: always one more entry
DictSetAppend(reg, image_id, path, content_type) ==
    Append(reg, [id |-> image_id, path |-> path, content_type |-> content_type])

\* d[key] = value: an existing key keeps its position, a new key goes last
DictSet(reg, image_id, path, content_type) ==
    LET e == [id |-> image_id, path |-> path, content_type |-> content_type]
    IN  IF Resident(reg, image_id)
        THEN [reg EXCEPT ![IndexOf(reg, image_id)] = e]
        ELSE Append(reg, e)

\* OrderedDict.move_to_end(key, last=False)
MoveToFront(reg, image_id) ==
    LET i == IndexOf(reg, image_id)
    IN  <<reg[i]>> \o SubSeq(reg, 1, i - 1) \o SubSeq(reg, i + 1, Len(reg))

\* OrderedDict.move_to_end(key)
MoveToEnd(reg, image_id) ==
    LET i == IndexOf(reg, image_id)
    IN  Append(SubSeq(reg, 1, i - 1) \o SubSeq(reg, i + 1, Len(reg)), reg[i])

\* Path.unlink(missing_ok=True); an OSError leaves the file where it is
Unlink(fs, path, unlinkOk) ==
    IF unlinkOk /\ path \in DOMAIN fs
    THEN [p \in (DOMAIN fs) \ {path} |-> fs[p]]
    ELSE fs

\* Path.write_bytes(data)
WriteBytes(fs, path, data) ==
    [p \in (DOMAIN fs) \cup {path} |-> IF p = path THEN data ELSE fs[p]]

(***************************************************************************)
(* PDFAssetManager.                                                        *)
(***************************************************************************)
\* popitem(last=True): the newest entry
PopItemLast(reg) == [asset |-> reg[Len(reg)], rest |-> SubSeq(reg, 1, Len(reg) - 1)]

\* popitem(last=False): the oldest entry, and what is left
PopItem(reg) == [asset |-> reg[1], rest |-> Tail(reg)]

\* _evict_if_needed unlinking before it pops, and stopping at a failed unlink
RECURSIVE EvictIfNeededUnlinkFirst(_, _, _, _, _)
EvictIfNeededUnlinkFirst(reg, fs, max, unlinkOk, evicted) ==
    IF Len(reg) > max /\ unlinkOk
    THEN LET asset == PopItem(reg).asset
         IN  EvictIfNeededUnlinkFirst(PopItem(reg).rest,
                                      Unlink(fs, asset.path, unlinkOk), max,
                                      unlinkOk, Append(evicted, asset.id))
    ELSE [registry |-> reg, files |-> fs, evicted |-> evicted]

\* _evict_if_needed: [registry, files, evicted], evicted the ids popped in order
RECURSIVE EvictIfNeeded(_, _, _, _, _)
EvictIfNeeded(reg, fs, max, unlinkOk, evicted) ==
    IF Len(reg) > max
    THEN LET asset == PopItem(reg).asset
         IN  EvictIfNeeded(PopItem(reg).rest, Unlink(fs, asset.path, unlinkOk), max,
                           unlinkOk, Append(evicted, asset.id))
    ELSE [registry |-> reg, files |-> fs, evicted |-> evicted]

\* register(image_id, data, extension, content_type): the cache after the call
\* and what the call returned
Register(reg, fs, max, image_id, data, content_type, writeOk, unlinkOk) ==
    LET path == PathOf(image_id)
    IN  IF ~writeOk
        THEN [registry |-> reg, files |-> fs, evicted |-> <<>>,
              ret |-> NoPath, raised |-> TRUE]
        ELSE LET r == EvictIfNeeded(
                        MoveToEnd(DictSet(reg, image_id, path, content_type), image_id),
                        WriteBytes(fs, path, data), max, unlinkOk, <<>>)
             IN  [registry |-> r.registry, files |-> r.files, evicted |-> r.evicted,
                  ret |-> path, raised |-> FALSE]

\* get without the move_to_end: insertion order only
GetNoRefresh(reg, image_id) ==
    [registry |-> reg, ret |-> DictGet(reg, image_id)]

\* get through setdefault: a miss leaves an empty entry behind
GetSetDefault(reg, image_id) ==
    LET asset == DictGet(reg, image_id)
    IN  [registry |-> IF asset.found THEN MoveToEnd(reg, image_id)
                      ELSE Append(reg, [id |-> image_id, path |-> <<>>,
                                        content_type |-> ""]),
         ret |-> asset]

\* get(image_id): the cache after the call and what the call returned
Get(reg, image_id) ==
    LET asset == DictGet(reg, image_id)
    IN  [registry |-> IF asset.found THEN MoveToEnd(reg, image_id) ELSE reg,
         ret |-> asset]

(***************************************************************************)
(* Threads calling the one PDFAssetManager of the process.                 *)
(***************************************************************************)
Threads == {1, 2}

\* a thread outside any call: calls counts the calls it has finished, asset is
\* the local variable asset of the call it is in, raised tells a KeyError
\* ended its last call
IdleThread(calls, raised) ==
    [pc |-> "idle", calls |-> calls, id |-> <<>>, asset |-> NotFound,
     raised |-> raised]

ThreadsIdle == [t \in Threads |-> IdleThread(0, FALSE)]

(***************************************************************************)
(* The rest of the process before anything ran.                            *)
(***************************************************************************)
\* get_page_count not called yet
NoProbe == [called |-> FALSE, raised |-> FALSE, page_count |-> 0, reliable |-> FALSE]

\* no extraction has returned before this one
NoEarlier == [done |-> FALSE, at |-> 0, assets |-> {}]

TtsTasks == {1, 2}

\* a task outside generate_audio; calls counts the calls it has finished
IdleTask(calls) ==
    [pc |-> "idle", calls |-> calls, key |-> <<>>, use_cache |-> FALSE, path |-> 0]

\* TTSService() with nothing generated
TtsIdle ==
    /\ cache_size = 1
    /\ tts_cache = <<>>
    /\ tmp_files = {}
    /\ made = <<>>
    /\ tts_log = <<>>
    /\ tasks = [t \in TtsTasks |-> IdleTask(0)]

(***************************************************************************)
(* The cache on its own: any sequence of register and get calls.           *)
(***************************************************************************)
IdA == ImageId("A", 1, 0, "png")
IdB == ImageId("B", 1, 0, "png")
IdC == ImageId("C", 1, 0, "png")
Ids == {IdA, IdB, IdC}
ContentTypes == {"image/png", "image/jpeg"}
Bytes == {"b1"}

InitCache ==
    /\ max_items \in 1..MaxItems
    /\ registry = <<>>
    /\ files = <<>>
    /\ log = <<>>
    /\ doc = [openOk |-> FALSE, metaOk |-> FALSE, pages |-> <<>>]
    /\ validate = TRUE
    /\ file_token = "tok"
    /\ pc = "start"
    /\ error = "none"
    /\ handle = "none"
    /\ closes = 0
    /\ validation = [is_valid |-> TRUE, total_pages |-> 0, validated_pages |-> 0,
                     issues |-> <<>>]
    /\ pages = <<>>
    /\ page_index = 0
    /\ threads = ThreadsIdle
    /\ probe = NoProbe
    /\ earlier = NoEarlier
    /\ TtsIdle

CallRegister ==
    /\ Len(log) < MaxOps
    /\ \E image_id \in Ids, data \in Bytes, content_type \in ContentTypes,
          unlinkOk \in BOOLEAN :
          LET r == Register(registry, files, max_items, image_id, data,
                            content_type, TRUE, unlinkOk)
          IN  /\ registry' = r.registry
              /\ files' = r.files
              /\ log' = Append(log, [op |-> "register", id |-> image_id,
                                     content_type |-> content_type,
                                     path |-> r.ret, asset |-> NotFound,
                                     evicted |-> r.evicted,
                                     unlinked |-> unlinkOk \/ r.evicted = <<>>])
    /\ UNCHANGED max_items
    /\ UNCHANGED extractVars
    /\ UNCHANGED <<threads, probe, earlier>>
    /\ UNCHANGED ttsVars

CallGet ==
    /\ Len(log) < MaxOps
    /\ \E image_id \in Ids :
          LET r == Get(registry, image_id)
          IN  /\ registry' = r.registry
              /\ log' = Append(log, [op |-> "get", id |-> image_id,
                                     content_type |-> "",
                                     path |-> NoPath, asset |-> r.ret,
                                     evicted |-> <<>>, unlinked |-> TRUE])
    /\ UNCHANGED <<max_items, files>>
    /\ UNCHANGED extractVars
    /\ UNCHANGED <<threads, probe, earlier>>
    /\ UNCHANGED ttsVars

NextCache == CallRegister \/ CallGet

SpecCache == InitCache /\ [][NextCache]_vars

(***************************************************************************)
(* Text: a sequence of characters, " " the whitespace and REPL the Unicode *)
(* replacement character U+FFFD.                                           *)
(***************************************************************************)
REPL == "U+FFFD"

RECURSIVE LStrip(_)
LStrip(t) == IF t # <<>> /\ Head(t) = " " THEN LStrip(Tail(t)) ELSE t

RECURSIVE RStrip(_)
RStrip(t) ==
    IF t # <<>> /\ t[Len(t)] = " " THEN RStrip(SubSeq(t, 1, Len(t) - 1)) ELSE t

\* str.strip()
Strip(t) == RStrip(LStrip(t))

\* c in text
Contains(t, c) == \E i \in 1..Len(t) : t[i] = c

\* len(text.split()): the maximal runs of non-whitespace
WordCount(t) ==
    Cardinality({i \in 1..Len(t) : t[i] # " " /\ (i = 1 \/ t[i - 1] = " ")})

(***************************************************************************)
(* PDFExtractor.                                                           *)
(***************************************************************************)
\* AVERAGE_READING_SPEED, words per minute
AverageReadingSpeed == 200

\* reading_time: Optional[float] = None, the default of PageMetadata
NoReadingTime == [none |-> TRUE, num |-> 0, den |-> 1]

\* (word_count / AVERAGE_READING_SPEED) * 60 if word_count > 0 else 0, as the
\* exact quotient num / den; the rounding of binary floating point is left out
ReadingTime(word_count) ==
    IF word_count > 0
    THEN [none |-> FALSE, num |-> word_count * 60, den |-> AverageReadingSpeed]
    ELSE [none |-> FALSE, num |-> 0, den |-> 1]

\* _calculate_page_metadata
CalculatePageMetadata(text, has_images) ==
    [word_count |-> WordCount(text), char_count |-> Len(text),
     has_images |-> has_images, reading_time |-> ReadingTime(WordCount(text))]

\* ValidationIssue(page, issue_type, severity)
Issue(page_number, issue_type, severity) ==
    [page |-> page_number, issue_type |-> issue_type, severity |-> severity]

\* the issue _validate_page's except clause returns
CorruptIssue(page_number) == Issue(page_number, "corrupt", "error")

\* _validate_page looking at the text before it tries the render
ValidatePageEncodingFirst(page, page_number, text) ==
    IF Contains(text, REPL)
    THEN [status |-> "warning",
          issue |-> <<Issue(page_number, "encoding", "warning")>>]
    ELSE IF ~page.renderOk
    THEN [status |-> "error", issue |-> <<CorruptIssue(page_number)>>]
    ELSE IF Strip(text) = <<>> /\ ~page.imagesOk
    THEN [status |-> "error", issue |-> <<CorruptIssue(page_number)>>]
    ELSE IF Strip(text) = <<>> /\ page.images = <<>>
    THEN [status |-> "warning",
          issue |-> <<Issue(page_number, "missing", "warning")>>]
    ELSE [status |-> "valid", issue |-> <<>>]

\* _validate_page(page, page_number, text): [status, issue], issue a list of
\* no issue (None) or one
ValidatePage(page, page_number, text) ==
    IF ~page.renderOk
    THEN [status |-> "error", issue |-> <<CorruptIssue(page_number)>>]
    ELSE IF Contains(text, REPL)
    THEN [status |-> "warning",
          issue |-> <<Issue(page_number, "encoding", "warning")>>]
    ELSE IF Strip(text) = <<>> /\ ~page.imagesOk
    THEN [status |-> "error", issue |-> <<CorruptIssue(page_number)>>]
    ELSE IF Strip(text) = <<>> /\ page.images = <<>>
    THEN [status |-> "warning",
          issue |-> <<Issue(page_number, "missing", "warning")>>]
    ELSE [status |-> "valid", issue |-> <<>>]

\* ValidateOne recording a failed load as a warning
ValidateOneLoadWarning(page, page_number, issues, validated_count) ==
    IF ~page.loadOk
    THEN [issues |-> Append(issues, Issue(page_number, "corrupt", "warning")),
          validated_count |-> validated_count]
    ELSE LET v == ValidatePage(page, page_number, Strip(page.text))
         IN  [issues |-> issues \o v.issue,
              validated_count |-> IF v.status # "error"
                                  THEN validated_count + 1
                                  ELSE validated_count]

\* ValidateOne counting the pages found valid only
ValidateOneValidOnly(page, page_number, issues, validated_count) ==
    IF ~page.loadOk
    THEN [issues |-> Append(issues, CorruptIssue(page_number)),
          validated_count |-> validated_count]
    ELSE LET v == ValidatePage(page, page_number, Strip(page.text))
         IN  [issues |-> issues \o v.issue,
              validated_count |-> IF v.status = "valid"
                                  THEN validated_count + 1
                                  ELSE validated_count]

\* one iteration of validate_document's loop: [issues, validated_count]
ValidateOne(page, page_number, issues, validated_count) ==
    IF ~page.loadOk
    THEN [issues |-> Append(issues, CorruptIssue(page_number)),
          validated_count |-> validated_count]
    ELSE LET v == ValidatePage(page, page_number, Strip(page.text))
         IN  [issues |-> issues \o v.issue,
              validated_count |-> IF v.status # "error"
                                  THEN validated_count + 1
                                  ELSE validated_count]

\* validate_document's loop giving up at the first page that does not load
RECURSIVE ValidateLoopAbort(_, _, _, _)
ValidateLoopAbort(d, page_number, issues, validated_count) ==
    IF page_number > Len(d.pages)
    THEN [issues |-> issues, validated_count |-> validated_count]
    ELSE IF ~d.pages[page_number].loadOk
    THEN [issues |-> Append(issues, CorruptIssue(page_number)),
          validated_count |-> validated_count]
    ELSE LET r == ValidateOne(d.pages[page_number], page_number, issues,
                              validated_count)
         IN  ValidateLoopAbort(d, page_number + 1, r.issues, r.validated_count)

\* validate_document's loop from page_number on
RECURSIVE ValidateLoop(_, _, _, _)
ValidateLoop(d, page_number, issues, validated_count) ==
    IF page_number > Len(d.pages)
    THEN [issues |-> issues, validated_count |-> validated_count]
    ELSE LET r == ValidateOne(d.pages[page_number], page_number, issues,
                              validated_count)
         IN  ValidateLoop(d, page_number + 1, r.issues, r.validated_count)

\* any(issue.severity == IssueSeverity.ERROR for issue in issues)
HasErrors(issues) == \E i \in 1..Len(issues) : issues[i].severity = "error"

\* IsValid taking any issue for an error
IsValidNoIssues(issues, validated_count, page_count) ==
    issues = <<>> /\ validated_count = page_count

\* is_valid = not has_errors and validated_count == doc.page_count
IsValid(issues, validated_count, page_count) ==
    ~HasErrors(issues) /\ validated_count = page_count

\* validate_document(doc)
ValidateDocument(d) ==
    LET r == ValidateLoop(d, 1, <<>>, 0)
    IN  [is_valid |-> IsValid(r.issues, r.validated_count, Len(d.pages)),
         total_pages |-> Len(d.pages),
         validated_pages |-> r.validated_count,
         issues |-> r.issues]

\* TrivialValidation with no page counted
TrivialValidationNoneCounted(d) ==
    [is_valid |-> TRUE, total_pages |-> Len(d.pages),
     validated_pages |-> 0, issues |-> <<>>]

\* the PageValidation extract makes up when validate is false
TrivialValidation(d) ==
    [is_valid |-> TRUE, total_pages |-> Len(d.pages),
     validated_pages |-> Len(d.pages), issues |-> <<>>]

\* PageImage(id, content_type); url, width and height left out
PageImage(image_id, content_type) == [id |-> image_id, content_type |-> content_type]

\* ErrorPage numbering the page by the 0-based page_index
ErrorPageZeroBased(page_number) ==
    [number |-> page_number - 1, text |-> <<>>, images |-> <<>>,
     metadata |-> [word_count |-> 0, char_count |-> 0, has_images |-> FALSE,
                   reading_time |-> NoReadingTime],
     validation_status |-> "error"]

\* ErrorPage with a placeholder for the text
ErrorPagePlaceholder(page_number) ==
    [number |-> page_number, text |-> <<"?">>, images |-> <<>>,
     metadata |-> [word_count |-> 0, char_count |-> 0, has_images |-> FALSE,
                   reading_time |-> NoReadingTime],
     validation_status |-> "error"]

\* the page extract's except clause appends
ErrorPage(page_number) ==
    [number |-> page_number, text |-> <<>>, images |-> <<>>,
     metadata |-> [word_count |-> 0, char_count |-> 0, has_images |-> FALSE,
                   reading_time |-> NoReadingTime],
     validation_status |-> "error"]

\* PageContent.has_content: bool(self.text.strip() or self.images)
HasContent(page) == Strip(page.text) # <<>> \/ page.images # <<>>

\* the page extract's try block appends
GoodPage(page_number, text, images, page_status) ==
    [number |-> page_number, text |-> text, images |-> images,
     metadata |-> CalculatePageMetadata(text, Len(images) > 0),
     validation_status |-> page_status]

\* the image loop without the inner try: the first image that fails ends it
RECURSIVE ImageLoopAbort(_, _, _, _, _, _, _, _, _)
ImageLoopAbort(reg, fs, lg, max, token, page_number, imgs, image_pos, acc) ==
    IF image_pos >= Len(imgs.list)
    THEN [registry |-> reg, files |-> fs, log |-> lg, images |-> acc]
    ELSE LET im == imgs.list[image_pos + 1]
             image_id == ImageId(token, page_number, image_pos, im.ext)
             r == Register(reg, fs, max, image_id, im.bytes, GuessType(im.ext),
                           TRUE, imgs.unlinkOk)
         IN  IF im.outcome \in {"fail", "nowrite"}
             THEN [registry |-> reg, files |-> fs, log |-> lg, images |-> acc]
             ELSE IF im.outcome = "empty"
             THEN ImageLoopAbort(reg, fs, lg, max, token, page_number, imgs,
                                 image_pos + 1, acc)
             ELSE ImageLoopAbort(r.registry, r.files,
                    Append(lg, [op |-> "register", id |-> image_id,
                                content_type |-> GuessType(im.ext),
                                path |-> r.ret, asset |-> NotFound,
                                evicted |-> r.evicted,
                                unlinked |-> imgs.unlinkOk \/ r.evicted = <<>>]),
                    max, token, page_number, imgs, image_pos + 1,
                    Append(acc, PageImage(image_id, GuessType(im.ext))))

\* the image loop of one page from position image_pos (0-based) on:
\* [registry, files, log, images]
RECURSIVE ImageLoop(_, _, _, _, _, _, _, _, _)
ImageLoop(reg, fs, lg, max, token, page_number, imgs, image_pos, acc) ==
    IF image_pos >= Len(imgs.list)
    THEN [registry |-> reg, files |-> fs, log |-> lg, images |-> acc]
    ELSE LET im == imgs.list[image_pos + 1]
             image_id == ImageId(token, page_number, image_pos, im.ext)
             r == Register(reg, fs, max, image_id, im.bytes, GuessType(im.ext),
                           im.outcome # "nowrite", imgs.unlinkOk)
         IN  IF im.outcome \in {"fail", "empty"}
             THEN ImageLoop(reg, fs, lg, max, token, page_number, imgs,
                            image_pos + 1, acc)
             ELSE ImageLoop(r.registry, r.files,
                    Append(lg, [op |-> "register", id |-> image_id,
                                content_type |-> GuessType(im.ext),
                                path |-> r.ret, asset |-> NotFound,
                                evicted |-> r.evicted,
                                unlinked |-> imgs.unlinkOk \/ r.evicted = <<>>]),
                    max, token, page_number, imgs, image_pos + 1,
                    IF r.raised THEN acc
                    ELSE Append(acc, PageImage(image_id, GuessType(im.ext))))

(***************************************************************************)
(* Documents.                                                              *)
(***************************************************************************)
Texts == {<<" ">>, <<" ", "a", " ", "b">>, <<"a", REPL>>}

Image(outcome) == [outcome |-> outcome, ext |-> "png", bytes |-> "b1"]

ImageLists == {<<>>, <<Image("ok")>>, <<Image("fail")>>, <<Image("empty")>>,
               <<Image("nowrite")>>}

\* a page no load_page or get_text gives
UnreadablePage ==
    [loadOk |-> FALSE, renderOk |-> TRUE, imagesOk |-> TRUE, text |-> <<>>,
     images |-> <<>>]

PageKinds ==
    {UnreadablePage} \cup
    {[loadOk |-> TRUE, renderOk |-> r, imagesOk |-> TRUE, text |-> t, images |-> l] :
        r \in BOOLEAN, t \in Texts, l \in ImageLists} \cup
    {[loadOk |-> TRUE, renderOk |-> r, imagesOk |-> FALSE, text |-> t, images |-> <<>>] :
        r \in BOOLEAN, t \in Texts}

PageLists == UNION {[1..n -> PageKinds] : n \in 0..MaxPages}

\* a file fitz.open cannot parse
Unopenable == [openOk |-> FALSE, metaOk |-> FALSE, pages |-> <<>>]

Docs ==
    {Unopenable} \cup
    {[openOk |-> TRUE, metaOk |-> m, pages |-> ps] : m \in BOOLEAN, ps \in PageLists}

(***************************************************************************)
(* extract(pdf_path, token, validate), step by step.                       *)
(***************************************************************************)
Init ==
    /\ max_items \in 1..MaxItems
    /\ registry = <<>>
    /\ files = <<>>
    /\ log = <<>>
    /\ doc \in Docs
    /\ validate \in BOOLEAN
    /\ file_token = "tok"
    /\ pc = "start"
    /\ error = "none"
    /\ handle = "none"
    /\ closes = 0
    /\ validation = [is_valid |-> TRUE, total_pages |-> 0, validated_pages |-> 0,
                     issues |-> <<>>]
    /\ pages = <<>>
    /\ page_index = 0
    /\ threads = ThreadsIdle
    /\ probe = NoProbe
    /\ earlier = NoEarlier
    /\ TtsIdle

\* doc = fitz.open(pdf_path): raises when the file cannot be parsed
Open ==
    /\ pc = "start"
    /\ IF doc.openOk
       THEN pc' = "opened" /\ handle' = "open" /\ error' = error
       ELSE pc' = "raised" /\ handle' = handle /\ error' = "open"
    /\ UNCHANGED <<doc, validate, file_token, closes, validation, pages, page_index>>
    /\ UNCHANGED cacheVars
    /\ UNCHANGED <<threads, probe, earlier>>
    /\ UNCHANGED ttsVars

\* validation = self.validate_document(doc) if validate else PageValidation(...)
Validate ==
    /\ pc = "opened"
    /\ validation' = IF validate THEN ValidateDocument(doc) ELSE TrivialValidation(doc)
    /\ pc' = "validated"
    /\ UNCHANGED <<doc, validate, file_token, error, handle, closes, pages, page_index>>
    /\ UNCHANGED cacheVars
    /\ UNCHANGED <<threads, probe, earlier>>
    /\ UNCHANGED ttsVars

\* doc_metadata = {...}: doc.metadata is None for a document that needs a
\* password, and doc.metadata.get raises
ReadMetadata ==
    /\ pc = "validated"
    /\ IF doc.metaOk
       THEN pc' = "pages" /\ error' = error
       ELSE pc' = "raised" /\ error' = "metadata"
    /\ UNCHANGED <<doc, validate, file_token, handle, closes, validation, pages,
                   page_index>>
    /\ UNCHANGED cacheVars
    /\ UNCHANGED <<threads, probe, earlier>>
    /\ UNCHANGED ttsVars

\* one iteration of the page loop
ExtractPage ==
    /\ pc = "pages"
    /\ page_index < Len(doc.pages)
    /\ LET page == doc.pages[page_index + 1]
           text == Strip(page.text)
           v == ValidatePage(page, page_index + 1, text)
       IN  IF ~page.loadOk \/ ~page.imagesOk
           THEN /\ pages' = Append(pages, ErrorPage(page_index + 1))
                /\ UNCHANGED cacheVars
           ELSE \E unlinkOk \in BOOLEAN :
                  LET r == ImageLoop(registry, files, log, max_items, file_token,
                                     page_index + 1,
                                     [list |-> page.images, unlinkOk |-> unlinkOk],
                                     0, <<>>)
                  IN  /\ pages' = Append(pages, GoodPage(page_index + 1, text,
                                                         r.images, v.status))
                      /\ registry' = r.registry
                      /\ files' = r.files
                      /\ log' = r.log
                      /\ UNCHANGED max_items
    /\ page_index' = page_index + 1
    /\ UNCHANGED <<doc, validate, file_token, pc, error, handle, closes, validation>>
    /\ UNCHANGED <<threads, probe, earlier>>
    /\ UNCHANGED ttsVars

\* result = PDFExtractionResult(...); doc.close(); return result
Finish ==
    /\ pc = "pages"
    /\ page_index = Len(doc.pages)
    /\ handle' = "closed"
    /\ closes' = closes + 1
    /\ pc' = "returned"
    /\ UNCHANGED <<doc, validate, file_token, error, validation, pages, page_index>>
    /\ UNCHANGED cacheVars
    /\ UNCHANGED <<threads, probe, earlier>>
    /\ UNCHANGED ttsVars

Next == Open \/ Validate \/ ReadMetadata \/ ExtractPage \/ Finish

Spec == Init /\ [][Next]_vars

(***************************************************************************)
(* Two uploads in a row: convert_file calls extract on the one             *)
(* pdf_extractor of the process, once per upload, with the uploaded        *)
(* filename as token. Documents of one page, with up to MaxImages images.  *)
(***************************************************************************)
ImageOutcomes == {"ok", "fail", "empty", "nowrite"}

ImageSeqs == UNION {[1..n -> {Image(o) : o \in ImageOutcomes}] : n \in 0..MaxImages}

OnePage(text, images) ==
    [openOk |-> TRUE, metaOk |-> TRUE,
     pages |-> <<[loadOk |-> TRUE, renderOk |-> TRUE, imagesOk |-> TRUE,
                  text |-> text, images |-> images]>>]

FirstDocs == {OnePage(t, l) : t \in {<<" ">>, <<" ", "a", " ", "b">>}, l \in ImageSeqs}

SecondDocs ==
    {OnePage(<<"a">>, <<>>)} \cup
    {OnePage(<<"a">>, <<[outcome |-> o, ext |-> "png", bytes |-> b]>>) :
        o \in {"ok", "fail"}, b \in {"b1", "b2"}}

\* file.filename of the uploads
Tokens == {"tok", "tok2"}

InitImages ==
    /\ max_items \in 1..MaxItems
    /\ registry = <<>>
    /\ files = <<>>
    /\ log = <<>>
    /\ doc \in FirstDocs
    /\ validate = TRUE
    /\ file_token = "tok"
    /\ pc = "start"
    /\ error = "none"
    /\ handle = "none"
    /\ closes = 0
    /\ validation = [is_valid |-> TRUE, total_pages |-> 0, validated_pages |-> 0,
                     issues |-> <<>>]
    /\ pages = <<>>
    /\ page_index = 0
    /\ threads = ThreadsIdle
    /\ probe = NoProbe
    /\ earlier = NoEarlier
    /\ TtsIdle

\* what the returned ids that are resident resolve to: the entry get gives and
\* the bytes of the file at its path
Resolved ==
    {[id |-> a, content_type |-> DictGet(registry, a).content_type,
      bytes |-> files[DictGet(registry, a).path]] :
        a \in {b \in UNION {{pages[i].images[k].id : k \in 1..Len(pages[i].images)} :
                              i \in 1..Len(pages)} :
                 Resident(registry, b) /\ DictGet(registry, b).path \in DOMAIN files}}

\* convert_file again: the next upload is extracted by the same pdf_extractor,
\* with the same asset_manager
NextDocument ==
    /\ pc = "returned"
    /\ ~earlier.done
    /\ earlier' = [done |-> TRUE, at |-> Len(log), assets |-> Resolved]
    /\ doc' \in SecondDocs
    /\ file_token' \in Tokens
    /\ pc' = "start"
    /\ error' = "none"
    /\ handle' = "none"
    /\ closes' = 0
    /\ validation' = [is_valid |-> TRUE, total_pages |-> 0, validated_pages |-> 0,
                      issues |-> <<>>]
    /\ pages' = <<>>
    /\ page_index' = 0
    /\ UNCHANGED validate
    /\ UNCHANGED cacheVars
    /\ UNCHANGED <<threads, probe>>
    /\ UNCHANGED ttsVars

NextImages == Open \/ Validate \/ ReadMetadata \/ ExtractPage \/ Finish \/ NextDocument

SpecImages == InitImages /\ [][NextImages]_vars

(***************************************************************************)
(* get_page_count(pdf_path) on its own.                                    *)
(***************************************************************************)
\* get_page_count trying the first page only
GetPageCountFirstOnly(d) ==
    IF ~d.openOk
    THEN [called |-> TRUE, raised |-> FALSE, page_count |-> 0, reliable |-> FALSE]
    ELSE [called |-> TRUE, raised |-> FALSE, page_count |-> Len(d.pages),
          reliable |-> Len(d.pages) > 0 /\ d.pages[1].loadOk]

\* get_page_count(pdf_path): (page_count, is_reliable); every exception is
\* caught, the one of fitz.open by the outer except, the one of load_page by
\* the inner
GetPageCount(d) ==
    IF ~d.openOk
    THEN [called |-> TRUE, raised |-> FALSE, page_count |-> 0, reliable |-> FALSE]
    ELSE LET page_count == Len(d.pages)
             is_reliable ==
                 IF page_count > 0
                 THEN IF ~d.pages[1].loadOk
                      THEN FALSE
                      ELSE IF page_count > 1
                      THEN d.pages[page_count].loadOk
                      ELSE TRUE
                 ELSE FALSE
         IN  [called |-> TRUE, raised |-> FALSE, page_count |-> page_count,
              reliable |-> is_reliable]

\* a PDFAssetManager nothing was registered with
CacheIdle ==
    /\ max_items = 1
    /\ registry = <<>>
    /\ files = <<>>
    /\ log = <<>>

\* extract not called, for the document d
ExtractIdle(d) ==
    /\ doc = d
    /\ validate = TRUE
    /\ file_token = "tok"
    /\ pc = "start"
    /\ error = "none"
    /\ handle = "none"
    /\ closes = 0
    /\ validation = [is_valid |-> TRUE, total_pages |-> 0, validated_pages |-> 0,
                     issues |-> <<>>]
    /\ pages = <<>>
    /\ page_index = 0

InitProbe ==
    /\ CacheIdle
    /\ \E d \in Docs : ExtractIdle(d)
    /\ threads = ThreadsIdle
    /\ probe = NoProbe
    /\ earlier = NoEarlier
    /\ TtsIdle

CallGetPageCount ==
    /\ ~probe.called
    /\ probe' = GetPageCount(doc)
    /\ UNCHANGED cacheVars
    /\ UNCHANGED extractVars
    /\ UNCHANGED <<threads, earlier>>
    /\ UNCHANGED ttsVars

NextProbe == CallGetPageCount

SpecProbe == InitProbe /\ [][NextProbe]_vars

(***************************************************************************)
(* register and get called from several threads. PDFAssetManager holds no  *)
(* lock: a thread may be switched out between any two statements.          *)
(***************************************************************************)
ThreadIds == {IdA, IdB}

InitThreads ==
    /\ max_items \in 1..MaxItems
    /\ registry = <<>>
    /\ files = <<>>
    /\ log = <<>>
    /\ doc = [openOk |-> FALSE, metaOk |-> FALSE, pages |-> <<>>]
    /\ validate = TRUE
    /\ file_token = "tok"
    /\ pc = "start"
    /\ error = "none"
    /\ handle = "none"
    /\ closes = 0
    /\ validation = [is_valid |-> TRUE, total_pages |-> 0, validated_pages |-> 0,
                     issues |-> <<>>]
    /\ pages = <<>>
    /\ page_index = 0
    /\ threads = ThreadsIdle
    /\ probe = NoProbe
    /\ earlier = NoEarlier
    /\ TtsIdle

\* thread t goes to position p of its call
Goto(t, p) == threads' = [threads EXCEPT ![t].pc = p]

\* thread t leaves its call, by return or by a KeyError
Leave(t, raised) ==
    threads' = [threads EXCEPT ![t] = IdleThread(threads[t].calls + 1, raised)]

\* the calls leave the capacity and everything outside the cache alone
ThreadFrame ==
    /\ UNCHANGED <<max_items, log>>
    /\ UNCHANGED extractVars
    /\ UNCHANGED <<probe, earlier>>
    /\ UNCHANGED ttsVars

\* thread t enters register(image_id, ...): path = self.base_dir / image_id
EnterRegister(t) ==
    /\ threads[t].pc = "idle"
    /\ threads[t].calls < ThreadCalls
    /\ \E image_id \in ThreadIds :
          threads' = [threads EXCEPT ![t].pc = "write", ![t].id = image_id]
    /\ UNCHANGED <<registry, files>>
    /\ ThreadFrame

\* path.write_bytes(data)
RegisterWrite(t) ==
    /\ threads[t].pc = "write"
    /\ files' = WriteBytes(files, PathOf(threads[t].id), "b1")
    /\ Goto(t, "set")
    /\ UNCHANGED registry
    /\ ThreadFrame

\* self._registry[image_id] = {...}
RegisterSet(t) ==
    /\ threads[t].pc = "set"
    /\ registry' = DictSet(registry, threads[t].id, PathOf(threads[t].id), "image/png")
    /\ Goto(t, "move")
    /\ UNCHANGED files
    /\ ThreadFrame

\* self._registry.move_to_end(image_id): KeyError when the key is gone
RegisterMove(t) ==
    /\ threads[t].pc = "move"
    /\ IF Resident(registry, threads[t].id)
       THEN registry' = MoveToEnd(registry, threads[t].id) /\ Goto(t, "check")
       ELSE registry' = registry /\ Leave(t, TRUE)
    /\ UNCHANGED files
    /\ ThreadFrame

\* while len(self._registry) > self.max_items; else return str(path)
EvictCheck(t) ==
    /\ threads[t].pc = "check"
    /\ IF Len(registry) > max_items THEN Goto(t, "pop") ELSE Leave(t, FALSE)
    /\ UNCHANGED <<registry, files>>
    /\ ThreadFrame

\* image_id, asset = self._registry.popitem(last=False): KeyError when empty
EvictPop(t) ==
    /\ threads[t].pc = "pop"
    /\ IF registry # <<>>
       THEN /\ registry' = PopItem(registry).rest
            /\ threads' = [threads EXCEPT
                   ![t].pc = "unlink",
                   ![t].asset = [found |-> TRUE,
                                 path |-> PopItem(registry).asset.path,
                                 content_type |-> PopItem(registry).asset.content_type]]
       ELSE registry' = registry /\ Leave(t, TRUE)
    /\ UNCHANGED files
    /\ ThreadFrame

\* Path(asset["path"]).unlink(missing_ok=True)
EvictUnlink(t) ==
    /\ threads[t].pc = "unlink"
    /\ files' = Unlink(files, threads[t].asset.path, TRUE)
    /\ Goto(t, "check")
    /\ UNCHANGED registry
    /\ ThreadFrame

\* thread t enters get(image_id): asset = self._registry.get(image_id);
\* return asset when it is None
GetLookup(t) ==
    /\ threads[t].pc = "idle"
    /\ threads[t].calls < ThreadCalls
    /\ \E image_id \in ThreadIds :
          IF DictGet(registry, image_id).found
          THEN threads' = [threads EXCEPT ![t].pc = "refresh", ![t].id = image_id,
                                          ![t].asset = DictGet(registry, image_id)]
          ELSE Leave(t, FALSE)
    /\ UNCHANGED <<registry, files>>
    /\ ThreadFrame

\* self._registry.move_to_end(image_id); return asset
GetRefresh(t) ==
    /\ threads[t].pc = "refresh"
    /\ IF Resident(registry, threads[t].id)
       THEN registry' = MoveToEnd(registry, threads[t].id) /\ Leave(t, FALSE)
       ELSE registry' = registry /\ Leave(t, TRUE)
    /\ UNCHANGED files
    /\ ThreadFrame

NextThreads ==
    \E t \in Threads :
        \/ EnterRegister(t)
        \/ RegisterWrite(t)
        \/ RegisterSet(t)
        \/ RegisterMove(t)
        \/ EvictCheck(t)
        \/ EvictPop(t)
        \/ EvictUnlink(t)
        \/ GetLookup(t)
        \/ GetRefresh(t)

SpecThreads == InitThreads /\ [][NextThreads]_vars

(***************************************************************************)
(* TTSService (tts_service.py): the cache of generated audio files. The    *)
(* cache is an OrderedDict of key -> file_path; an entry is kept as        *)
(* [id, path, content_type] with the key as id and no content type. A file *)
(* in /tmp is named by the number of its creation; 0 is None.              *)
(***************************************************************************)
NoAudio == 0

\* text, voice, rate, pitch of a request; the voice is not a pt-BR voice, so
\* generate_audio leaves the text as it is
Request(text) ==
    [text |-> text, voice |-> "en-US-JennyNeural", rate |-> "+0%", pitch |-> "+0Hz"]

Requests == {Request(t) : t \in {"", "t1", "t2"}}

\* _generate_cache_key: the md5 of f"{text}:{voice}:{rate}:{pitch}", kept as
\* the string hashed
GenerateCacheKey(text, voice, rate, pitch) ==
    <<text, ":", voice, ":", rate, ":", pitch>>

\* _get_from_cache testing the values of the dict for the key: never a hit
GetFromCacheValues(cache, on_disk, key) == [cache |-> cache, ret |-> NoAudio]

\* _get_from_cache(key): [cache, ret], ret the cached path or None
GetFromCache(cache, on_disk, key) ==
    IF Resident(cache, key)
    THEN LET moved == MoveToEnd(cache, key)
             file_path == DictGet(moved, key).path
         IN  IF file_path \in on_disk
             THEN [cache |-> moved, ret |-> file_path]
             ELSE [cache |-> SubSeq(moved, 1, Len(moved) - 1), ret |-> NoAudio]
    ELSE [cache |-> cache, ret |-> NoAudio]

\* _add_to_cache(key, file_path): [cache, files, evicted, raised]; popitem on
\* an empty dict raises KeyError
AddToCache(cache, on_disk, size, key, file_path, removeOk) ==
    IF Len(cache) >= size
    THEN IF cache = <<>>
         THEN [cache |-> cache, files |-> on_disk, evicted |-> <<>>, raised |-> TRUE]
         ELSE LET oldest == PopItem(cache)
              IN  [cache |-> DictSet(oldest.rest, key, file_path, ""),
                   files |-> IF removeOk THEN on_disk \ {oldest.asset.path}
                             ELSE on_disk,
                   evicted |-> <<oldest.asset.id>>, raised |-> FALSE]
    ELSE [cache |-> DictSet(cache, key, file_path, ""), files |-> on_disk,
          evicted |-> <<>>, raised |-> FALSE]

\* a generate_audio call that ended, as tts_log keeps it: path the path it
\* returned, new the file it created
AudioCall(key, use_cache, path, cached, raised, evicted, new) ==
    [op |-> "generate", key |-> key, use_cache |-> use_cache, path |-> path,
     cached |-> cached, raised |-> raised, evicted |-> evicted, new |-> new]

\* task t returns or raises: back to idle with one more call made
TaskDone(t) == [tasks EXCEPT ![t] = IdleTask(tasks[t].calls + 1)]

\* generate_audio up to its await, run by task t for at most calls calls:
\* raise on an empty text, return the cached path on a hit, else create the
\* temporary file and wait for the synthesis
GenerateAudioLookup(t, calls) ==
    /\ tasks[t].pc = "idle"
    /\ tasks[t].calls < calls
    /\ \E req \in Requests, use_cache \in BOOLEAN :
          LET cache_key == GenerateCacheKey(req.text, req.voice, req.rate, req.pitch)
              g == IF use_cache THEN GetFromCache(tts_cache, tmp_files, cache_key)
                   ELSE [cache |-> tts_cache, ret |-> NoAudio]
              output_path == Len(made) + 1
          IN  IF req.text = ""
              THEN /\ tts_log' = Append(tts_log,
                          AudioCall(cache_key, use_cache, NoAudio, FALSE, TRUE,
                                    <<>>, NoAudio))
                   /\ tasks' = TaskDone(t)
                   /\ UNCHANGED <<tts_cache, tmp_files, made>>
              ELSE IF g.ret # NoAudio
              THEN /\ tts_cache' = g.cache
                   /\ tts_log' = Append(tts_log,
                          AudioCall(cache_key, use_cache, g.ret, TRUE, FALSE,
                                    <<>>, NoAudio))
                   /\ tasks' = TaskDone(t)
                   /\ UNCHANGED <<tmp_files, made>>
              ELSE /\ tts_cache' = g.cache
                   /\ tmp_files' = tmp_files \cup {output_path}
                   /\ made' = Append(made, [key |-> cache_key, use_cache |-> use_cache,
                                            saved |-> FALSE])
                   /\ tasks' = [tasks EXCEPT ![t].pc = "saving", ![t].key = cache_key,
                                             ![t].use_cache = use_cache,
                                             ![t].path = output_path]
                   /\ UNCHANGED tts_log
    /\ UNCHANGED cache_size

\* generate_audio from the end of await communicate.save on: the synthesis
\* raised, or the file is written, added to the cache and returned
GenerateAudioSave(t, removeOks) ==
    /\ tasks[t].pc = "saving"
    /\ \E saveOk \in BOOLEAN, removeOk \in removeOks :
          LET a == AddToCache(tts_cache, tmp_files, cache_size, tasks[t].key,
                              tasks[t].path, removeOk)
          IN  IF ~saveOk
              THEN /\ tts_log' = Append(tts_log,
                          AudioCall(tasks[t].key, tasks[t].use_cache, NoAudio, FALSE,
                                    TRUE, <<>>, tasks[t].path))
                   /\ UNCHANGED <<tts_cache, tmp_files, made>>
              ELSE IF ~tasks[t].use_cache
              THEN /\ made' = [made EXCEPT ![tasks[t].path].saved = TRUE]
                   /\ tts_log' = Append(tts_log,
                          AudioCall(tasks[t].key, FALSE, tasks[t].path, FALSE, FALSE,
                                    <<>>, tasks[t].path))
                   /\ UNCHANGED <<tts_cache, tmp_files>>
              ELSE /\ made' = [made EXCEPT ![tasks[t].path].saved = TRUE]
                   /\ tts_cache' = a.cache
                   /\ tmp_files' = a.files
                   /\ tts_log' = Append(tts_log,
                          AudioCall(tasks[t].key, TRUE,
                                    IF a.raised THEN NoAudio ELSE tasks[t].path,
                                    FALSE, a.raised, a.evicted, tasks[t].path))
    /\ tasks' = TaskDone(t)
    /\ UNCHANGED cache_size

\* nothing of the PDF side moves
TtsFrame ==
    /\ UNCHANGED cacheVars
    /\ UNCHANGED extractVars
    /\ UNCHANGED <<threads, probe, earlier>>

InitTts ==
    /\ CacheIdle
    /\ ExtractIdle(Unopenable)
    /\ threads = ThreadsIdle
    /\ probe = NoProbe
    /\ earlier = NoEarlier
    /\ cache_size \in 1..MaxCacheSize
    /\ tts_cache = <<>>
    /\ tmp_files = {}
    /\ made = <<>>
    /\ tts_log = <<>>
    /\ tasks = [t \in TtsTasks |-> IdleTask(0)]

(***************************************************************************)
(* generate_audio called again only after the call before it ended; files  *)
(* in /tmp may be removed from outside the service.                        *)
(***************************************************************************)
CallLookup == GenerateAudioLookup(1, AudioCalls) /\ TtsFrame

CallSave == GenerateAudioSave(1, BOOLEAN) /\ TtsFrame

\* something outside the service removes an audio file from /tmp
RemoveTmpFile ==
    /\ tasks[1].pc = "idle"
    /\ \E f \in tmp_files :
          /\ tmp_files' = tmp_files \ {f}
          /\ tts_log' = Append(tts_log, [op |-> "removed", key |-> <<>>,
                                         use_cache |-> FALSE, path |-> f,
                                         cached |-> FALSE, raised |-> FALSE,
                                         evicted |-> <<>>, new |-> NoAudio])
    /\ UNCHANGED <<cache_size, tts_cache, made, tasks>>
    /\ TtsFrame

NextTts == CallLookup \/ CallSave \/ RemoveTmpFile

SpecTts == InitTts /\ [][NextTts]_vars

(***************************************************************************)
(* generate_audio run by concurrent asyncio tasks: a task is switched out  *)
(* at its await only. Removing a file always succeeds here.                *)
(***************************************************************************)
TaskLookup(t) == GenerateAudioLookup(t, TaskCalls) /\ TtsFrame

TaskSave(t) == GenerateAudioSave(t, {TRUE}) /\ TtsFrame

NextTasks == \E t \in TtsTasks : TaskLookup(t) \/ TaskSave(t)

SpecTasks == InitTts /\ [][NextTasks]_vars

(***************************************************************************)
(* Properties of extract.                                                  *)
(***************************************************************************)
\* extract has reached its return statement
Returned == pc = "returned"

\* page i of the document has an image whose extraction or registration fails
HasFailingImage(i) ==
    \E k \in 1..Len(doc.pages[i].images) :
        doc.pages[i].images[k].outcome \in {"fail", "nowrite"}

\* C1: once the document has opened, the pages list only ever grows by one page
\* appended at the end, the page appended as the n-th carries number n, and the
\* list extract returns has exactly page_count entries, numbered 1..page_count.
C1_PagesContiguous ==
    /\ pages = <<>>
    /\ [][/\ \/ pages' = pages
             \/ /\ Len(pages') = Len(pages) + 1
                /\ SubSeq(pages', 1, Len(pages)) = pages
                /\ pages'[Len(pages')].number = Len(pages) + 1
          /\ pc' = "returned" =>
                /\ Len(pages') = Len(doc.pages)
                /\ \A i \in 1..Len(pages') : pages'[i].number = i]_vars

\* C1 witness: a returned two-page extraction with an unreadable page and a
\* page with a failing image
C1_Witness ==
    /\ Returned
    /\ Len(pages) = 2
    /\ \E i, j \in 1..2 : ~doc.pages[i].loadOk /\ doc.pages[j].loadOk /\ HasFailingImage(j)

\* the number of issues of severity error
ErrorIssues(issues) == {i \in 1..Len(issues) : issues[i].severity = "error"}

\* C2: whenever extract holds a DocumentValidation (from validate_document or
\* made up for validate = false), is_valid is true exactly when no issue has
\* severity error and validated_pages equals total_pages.
C2_IsValidIff ==
    pc \in {"validated", "pages", "returned"} \/ (pc = "raised" /\ error = "metadata") =>
        (validation.is_valid <=>
            /\ ErrorIssues(validation.issues) = {}
            /\ validation.validated_pages = validation.total_pages)

\* C2 witness: a validated document that is valid although it has an issue
\* (a warning), beside one that is not valid
C2_Witness ==
    /\ Returned
    /\ validate
    /\ validation.is_valid
    /\ validation.issues # <<>>

\* page i of the document has no page-level fault and has text
SoundPage(i) ==
    /\ doc.pages[i].loadOk
    /\ doc.pages[i].renderOk
    /\ doc.pages[i].imagesOk
    /\ Strip(doc.pages[i].text) # <<>>

\* page k is the one unreadable page of the document
OnlyUnreadable(k) ==
    /\ k \in 1..Len(doc.pages)
    /\ ~doc.pages[k].loadOk
    /\ \A i \in 1..Len(doc.pages) : i # k => SoundPage(i)

C4_OnlyOpenIsFatal == pc = "raised" => error = "open"

\* C5, as claimed: when extract finishes, by returning or by raising, the
\* document was closed exactly once if it had opened, and never if it had not.
C5_ClosedExactlyOnce ==
    pc \in {"returned", "raised"} =>
        closes = (IF error = "open" THEN 0 ELSE 1)

(***************************************************************************)
(* Properties of the asset cache, read off the history of calls.           *)
(***************************************************************************)
\* the positions of the register calls in the history
Registers(lg) == {i \in 1..Len(lg) : lg[i].op = "register"}

\* the history up to position n registers pairwise distinct ids only
DistinctRegisters(lg) ==
    \A i, j \in Registers(lg) : i # j => lg[i].id # lg[j].id

\* the last position before n at which image_id was registered, or looked up
\* after it had been registered; 0 when there is none
LastUse(lg, image_id, n) ==
    LET uses == {i \in 1..(n - 1) :
                    /\ lg[i].id = image_id
                    /\ \/ lg[i].op = "register"
                       \/ \E j \in 1..(i - 1) :
                             lg[j].op = "register" /\ lg[j].id = image_id}
    IN  IF uses = {} THEN 0 ELSE CHOOSE i \in uses : \A j \in uses : j <= i

\* the ids registered before position n
RegisteredBefore(lg, n) == {lg[i].id : i \in {j \in Registers(lg) : j < n}}

\* the least recently used of the ids registered before position n
LeastRecent(lg, n) ==
    CHOOSE a \in RegisteredBefore(lg, n) :
        \A b \in RegisteredBefore(lg, n) : LastUse(lg, a, n) <= LastUse(lg, b, n)

\* the history is max_items + 1 registers of distinct ids, with any lookups in
\* between, and ends with the last of them
OverfillScenario ==
    /\ log # <<>>
    /\ log[Len(log)].op = "register"
    /\ DistinctRegisters(log)
    /\ Cardinality(Registers(log)) = max_items + 1

\* C6, as claimed: after max_items + 1 registers of distinct ids from an empty
\* cache, exactly max_items entries are resident, the one evicted is the least
\* recently used, and its backing file no longer exists.
C6_EvictedFileGone ==
    OverfillScenario =>
        LET victim == LeastRecent(log, Len(log))
        IN  /\ Len(registry) = max_items
            /\ log[Len(log)].evicted = <<victim>>
            /\ ~Resident(registry, victim)
            /\ PathOf(victim) \notin DOMAIN files

\* C6, but for a failed deletion: after max_items + 1 registers of distinct ids
\* from an empty cache, exactly max_items entries are resident, the one evicted
\* is the least recently used (by last register or successful lookup), and its
\* backing file no longer exists unless deleting it failed.
C6_EvictsLeastRecent ==
    OverfillScenario =>
        LET victim == LeastRecent(log, Len(log))
        IN  /\ Len(registry) = max_items
            /\ log[Len(log)].evicted = <<victim>>
            /\ ~Resident(registry, victim)
            /\ (PathOf(victim) \in DOMAIN files) <=> ~log[Len(log)].unlinked
            /\ \A a \in Keys(registry) : PathOf(a) \in DOMAIN files

\* C6 witness: a full cache of two, the older entry looked up, then a third
\* id registered: the entry registered second is the one evicted
C6_Witness ==
    /\ OverfillScenario
    /\ max_items = 2
    /\ Len(log) = 4
    /\ log[3].op = "get"
    /\ log[3].id = log[1].id
    /\ log[4].evicted = <<log[2].id>>
    /\ log[4].unlinked

\* C7, as claimed: a register that directly follows a successful get(id) never
\* evicts id.
C7_GetProtects ==
    \A n \in 1..(Len(log) - 1) :
        log[n].op = "get" /\ log[n].asset.found /\ log[n + 1].op = "register" =>
            \A k \in 1..Len(log[n + 1].evicted) : log[n + 1].evicted[k] # log[n].id

\* C7, amended: in a cache with max_items >= 2, a register that directly
\* follows a successful get(id) never evicts id (with max_items = 1 the entry
\* just looked up is the only one, and registering another id evicts it).
C7_GetProtectsFromTwo ==
    max_items >= 2 => C7_GetProtects

\* C7 witness: in a cache of two, a successful get directly followed by a
\* register that evicts an entry
C7_Witness ==
    /\ max_items = 2
    /\ \E n \in 1..(Len(log) - 1) :
          /\ log[n].op = "get"
          /\ log[n].asset.found
          /\ log[n + 1].op = "register"
          /\ log[n + 1].evicted # <<>>

\* the step is a get call for an id that is not resident
GetMissStep ==
    /\ Len(log') = Len(log) + 1
    /\ log'[Len(log')].op = "get"
    /\ ~Resident(registry, log'[Len(log')].id)

\* C8: a get for an id that is not resident returns not-found and leaves the
\* resident entries, their order and the backing files as they were.
C8_GetMissNoEffect ==
    [][GetMissStep =>
          /\ log'[Len(log')].asset = NotFound
          /\ registry' = registry
          /\ files' = files]_vars

\* C8 witness: a get that missed on a cache holding two entries
C8_Witness ==
    /\ log # <<>>
    /\ log[Len(log)].op = "get"
    /\ ~log[Len(log)].asset.found
    /\ Len(registry) = 2

\* the last position before n at which image_id was registered; 0 if none
LastRegister(lg, image_id, n) ==
    LET regs == {i \in Registers(lg) : i < n /\ lg[i].id = image_id}
    IN  IF regs = {} THEN 0 ELSE CHOOSE i \in regs : \A j \in regs : j <= i

\* image_id was evicted by a call at one of the positions m..n-1
EvictedBetween(lg, image_id, m, n) ==
    \E i \in m..(n - 1) : \E k \in 1..Len(lg[i].evicted) : lg[i].evicted[k] = image_id

\* C9: every get(id) returns the path its latest register(id) returned and the
\* content type registered then, if id was registered and has not been evicted
\* since, and not-found otherwise.
C9_ResolvesUntilEvicted ==
    \A n \in 1..Len(log) :
        log[n].op = "get" =>
            LET m == LastRegister(log, log[n].id, n)
            IN  IF m # 0 /\ ~EvictedBetween(log, log[n].id, m, n)
                THEN log[n].asset = [found |-> TRUE, path |-> log[m].path,
                                     content_type |-> log[m].content_type]
                ELSE log[n].asset = NotFound

\* C9 witness: in a cache of one, an id registered and found, then evicted by
\* the next register and not found
C9_Witness ==
    /\ Len(log) = 4
    /\ log[1].op = "register"
    /\ log[2].op = "get" /\ log[2].id = log[1].id /\ log[2].asset.found
    /\ log[3].op = "register" /\ log[3].evicted = <<log[1].id>>
    /\ log[4].op = "get" /\ log[4].id = log[1].id /\ ~log[4].asset.found

\* the calls of the history, without their results
Calls(lg) == [i \in 1..Len(lg) |-> <<lg[i].op, lg[i].id>>]

\* C10, as claimed: with max_items = 2, register(A), register(B), get(B),
\* register(C) evicts C when C arrives.
C10_GetBEvictsC ==
    /\ max_items = 2
    /\ Calls(log) = <<<<"register", IdA>>, <<"register", IdB>>, <<"get", IdB>>,
                      <<"register", IdC>>>>
    => log[4].evicted = <<IdC>>

\* C10, amended: with max_items = 2, register(A), register(B), get(B),
\* register(C) evicts A when C arrives, as register(A), register(B),
\* register(C) does: A is still the least recently used. It is get(A) in
\* place of get(B) that changes the victim, to B.
C10_GetBEvictsA ==
    max_items = 2 =>
        /\ Calls(log) = <<<<"register", IdA>>, <<"register", IdB>>, <<"get", IdB>>,
                          <<"register", IdC>>>>
             => log[4].evicted = <<IdA>> /\ Keys(registry) = {IdB, IdC}
        /\ Calls(log) = <<<<"register", IdA>>, <<"register", IdB>>,
                          <<"register", IdC>>>>
             => log[3].evicted = <<IdA>> /\ Keys(registry) = {IdB, IdC}
        /\ Calls(log) = <<<<"register", IdA>>, <<"register", IdB>>, <<"get", IdA>>,
                          <<"register", IdC>>>>
             => log[4].evicted = <<IdB>> /\ Keys(registry) = {IdA, IdC}

\* C10 witness: the scenario has run
C10_Witness ==
    /\ max_items = 2
    /\ Calls(log) = <<<<"register", IdA>>, <<"register", IdB>>, <<"get", IdB>>,
                      <<"register", IdC>>>>
    /\ Keys(registry) = {IdB, IdC}

\* the last call of the history
LastCall == log[Len(log)]

\* C11, as claimed: in every state, also after a failed deletion, at most
\* max_items entries are resident and at most max_items backing files are on
\* disk, and the file of an entry just evicted is gone.
C11_DiskBounded ==
    /\ Len(registry) <= max_items
    /\ Cardinality(DOMAIN files) <= max_items
    /\ log # <<>> =>
          \A k \in 1..Len(LastCall.evicted) :
              PathOf(LastCall.evicted[k]) \notin DOMAIN files

\* C12: every register, also one whose eviction could not delete the backing
\* file, returns the path of the asset it registered, which is resident; the
\* entries it evicted are out of the index and at most max_items entries are
\* resident. After a failed deletion an entry was evicted all the same and its
\* file is still on disk.
C12_DeletionFailureTolerated ==
    log # <<>> /\ LastCall.op = "register" =>
        /\ LastCall.path = PathOf(LastCall.id)
        /\ Resident(registry, LastCall.id)
        /\ \A k \in 1..Len(LastCall.evicted) :
              ~Resident(registry, LastCall.evicted[k])
        /\ Len(registry) <= max_items
        /\ ~LastCall.unlinked =>
              /\ LastCall.evicted # <<>>
              /\ \A k \in 1..Len(LastCall.evicted) :
                    PathOf(LastCall.evicted[k]) \in DOMAIN files

\* C12 witness: a register on a full cache of two whose eviction failed to
\* delete the file
C12_Witness ==
    /\ log # <<>>
    /\ LastCall.op = "register"
    /\ ~LastCall.unlinked
    /\ max_items = 2
    /\ Len(registry) = 2
    /\ Cardinality(DOMAIN files) = 3

(***************************************************************************)
(* Properties of validation and of the pages extract returns.              *)
(***************************************************************************)
\* extract holds its validation
Validated == pc \in {"validated", "pages", "returned"}

\* the positions in the issues list of the issues for page i
IssuesFor(i) == {n \in 1..Len(validation.issues) : validation.issues[n].page = i}

\* processing page i throws in extract: its load, its text or its image list
Faulted(i) == ~doc.pages[i].loadOk \/ ~doc.pages[i].imagesOk

\* C14, as claimed: every returned page with status error has an issue of
\* severity error for its page number in validation.issues.
C14_ErrorPagesHaveIssues ==
    Returned =>
        \A i \in 1..Len(pages) :
            pages[i].validation_status = "error" =>
                \E n \in IssuesFor(i) : validation.issues[n].severity = "error"

\* C15, as claimed: every returned page with status error has empty text and
\* no images.
C15_ErrorPagesEmpty ==
    Returned =>
        \A i \in 1..Len(pages) :
            pages[i].validation_status = "error" =>
                pages[i].text = <<>> /\ pages[i].images = <<>>

\* C15, amended: a returned page has status error exactly when its processing
\* threw or its render probe failed; a page whose processing threw (load, text
\* extraction or image enumeration) has empty text and no images, while a page
\* that only failed the render probe keeps its own text and the images that
\* were extracted.
C15_FaultedPagesEmpty ==
    Returned =>
        \A i \in 1..Len(pages) :
            /\ pages[i].validation_status = "error" <=>
                  Faulted(i) \/ ~doc.pages[i].renderOk
            /\ Faulted(i) => pages[i].text = <<>> /\ pages[i].images = <<>>
            /\ ~Faulted(i) =>
                  /\ pages[i].text = Strip(doc.pages[i].text)
                  /\ Len(pages[i].images) <= Len(doc.pages[i].images)
                  /\ pages[i].metadata.has_images = (pages[i].images # <<>>)

\* C15 witness: a returned extraction with an unreadable page, empty, and a
\* page that failed the render probe and kept its text and an image
C15_Witness ==
    /\ Returned
    /\ Len(pages) = 2
    /\ ~doc.pages[1].loadOk
    /\ pages[1].text = <<>>
    /\ pages[2].validation_status = "error"
    /\ pages[2].text # <<>>
    /\ pages[2].images # <<>>

\* C16, as claimed (in exact arithmetic): every returned page has a
\* reading_time that is a number with reading_time * 200 = word_count * 60,
\* and that is 0 when word_count is 0.
C16_ReadingTime ==
    Returned =>
        \A i \in 1..Len(pages) :
            LET m == pages[i].metadata
            IN  /\ ~m.reading_time.none
                /\ m.reading_time.num * 200 = m.word_count * 60 * m.reading_time.den
                /\ m.word_count = 0 => m.reading_time.num = 0

\* what C17 says _validate_page gives for a page and its stripped text
ClaimedOutcome(page, text) ==
    IF ~page.renderOk THEN [status |-> "error", issue_type |-> "corrupt"]
    ELSE IF Contains(text, REPL) THEN [status |-> "warning", issue_type |-> "encoding"]
    ELSE IF text = <<>> /\ page.images = <<>>
    THEN [status |-> "warning", issue_type |-> "missing"]
    ELSE [status |-> "valid", issue_type |-> "none"]

\* the same, with the failure to enumerate the images of a page without text
AmendedOutcome(page, text) ==
    IF ~page.renderOk THEN [status |-> "error", issue_type |-> "corrupt"]
    ELSE IF Contains(text, REPL) THEN [status |-> "warning", issue_type |-> "encoding"]
    ELSE IF text = <<>> /\ ~page.imagesOk
    THEN [status |-> "error", issue_type |-> "corrupt"]
    ELSE IF text = <<>> /\ page.images = <<>>
    THEN [status |-> "warning", issue_type |-> "missing"]
    ELSE [status |-> "valid", issue_type |-> "none"]

\* the issues recorded for page i are those of outcome o: none for valid, else
\* exactly one, of o's type and of the severity named like o's status
IssueMatches(i, o) ==
    IF o.status = "valid"
    THEN IssuesFor(i) = {}
    ELSE /\ Cardinality(IssuesFor(i)) = 1
         /\ \A n \in IssuesFor(i) :
               /\ validation.issues[n].issue_type = o.issue_type
               /\ validation.issues[n].severity = o.status

\* C17, as claimed: for every page that loads, the validation pass records the
\* issue, and the extraction pass the status, of the first of: render failure
\* (error, corrupt), replacement character (warning, encoding), no text and no
\* embedded images (warning, missing), else valid with no issue.
C17_ValidatePageOrder ==
    pc \in {"pages", "returned"} =>
        \A i \in 1..Len(doc.pages) :
            doc.pages[i].loadOk =>
                LET o == ClaimedOutcome(doc.pages[i], Strip(doc.pages[i].text))
                IN  /\ validate => IssueMatches(i, o)
                    /\ i <= Len(pages) /\ ~Faulted(i) =>
                          pages[i].validation_status = o.status

\* C17, amended: as claimed, with one more case between the replacement
\* character and the emptiness check: when the text is empty and enumerating
\* the page's images fails, the outcome is error, corrupt. There is exactly
\* one status and at most one issue per page per pass, an issue exactly when
\* the status is not valid, of the severity of the status.
C17_ValidatePageOrderAmended ==
    pc \in {"pages", "returned"} =>
        \A i \in 1..Len(doc.pages) :
            doc.pages[i].loadOk =>
                LET o == AmendedOutcome(doc.pages[i], Strip(doc.pages[i].text))
                IN  /\ validate => IssueMatches(i, o)
                    /\ i <= Len(pages) /\ ~Faulted(i) =>
                          pages[i].validation_status = o.status

\* C17 witness: a returned validated extraction of a page with the
\* replacement character whose render fails, and of a page without text or
\* images
C17_Witness ==
    /\ Returned
    /\ validate
    /\ Len(pages) = 2
    /\ ~doc.pages[1].renderOk
    /\ Contains(doc.pages[1].text, REPL)
    /\ pages[1].validation_status = "error"
    /\ pages[2].validation_status = "warning"
    /\ \E n \in IssuesFor(2) : validation.issues[n].issue_type = "missing"

\* the pages validate_document does not classify error
NotErrorPages ==
    {i \in 1..Len(doc.pages) :
        /\ doc.pages[i].loadOk
        /\ AmendedOutcome(doc.pages[i], Strip(doc.pages[i].text)).status # "error"}

\* C18: validated_pages of validate_document is the number of pages not
\* classified error, warnings counted and failed loads not; total_pages minus
\* validated_pages is the number of issues of severity error; validated_pages
\* is at most total_pages.
C18_ValidatedPagesCount ==
    Validated /\ validate =>
        /\ validation.total_pages = Len(doc.pages)
        /\ validation.validated_pages = Cardinality(NotErrorPages)
        /\ validation.total_pages - validation.validated_pages =
               Cardinality(ErrorIssues(validation.issues))
        /\ validation.validated_pages <= validation.total_pages

\* C18 witness: a page with a warning, counted, and a page that does not load,
\* not counted
C18_Witness ==
    /\ Validated
    /\ validate
    /\ Len(doc.pages) = 2
    /\ ~doc.pages[1].loadOk
    /\ validation.validated_pages = 1
    /\ \E n \in IssuesFor(2) : validation.issues[n].severity = "warning"

\* C19: validate_document looks at every page in ascending order whatever
\* fails: the issues are in strictly ascending page order, a page that does
\* not load has exactly one issue, of severity error, and every other page,
\* also after a page that did not load, has the issue of its outcome.
C19_ValidationGoesOn ==
    Validated /\ validate =>
        /\ \A m, n \in 1..Len(validation.issues) :
              m < n => validation.issues[m].page < validation.issues[n].page
        /\ \A n \in 1..Len(validation.issues) :
              validation.issues[n].page \in 1..Len(doc.pages)
        /\ \A i \in 1..Len(doc.pages) :
              IF doc.pages[i].loadOk
              THEN IssueMatches(i, AmendedOutcome(doc.pages[i],
                                                  Strip(doc.pages[i].text)))
              ELSE IssueMatches(i, [status |-> "error", issue_type |-> "corrupt"])

\* C19 witness: the first page does not load and the second still gets its
\* warning
C19_Witness ==
    /\ Validated
    /\ validate
    /\ Len(doc.pages) = 2
    /\ ~doc.pages[1].loadOk
    /\ Len(validation.issues) = 2
    /\ validation.issues[1].severity = "error"
    /\ validation.issues[2].page = 2

\* C20: called with validate = false, extract holds and returns a validation
\* with is_valid true, validated_pages = total_pages = page_count and no
\* issues, whatever becomes of the pages.
C20_TrivialValidation ==
    Validated /\ ~validate =>
        /\ validation.is_valid
        /\ validation.total_pages = Len(doc.pages)
        /\ validation.validated_pages = validation.total_pages
        /\ validation.issues = <<>>

\* C20 witness: a returned extraction without validation that holds a page
\* with status error
C20_Witness ==
    /\ Returned
    /\ ~validate
    /\ validation.is_valid
    /\ \E i \in 1..Len(pages) : pages[i].validation_status = "error"

\* every thread is outside the cache: all calls have completed
AllCallsDone == \A t \in Threads : threads[t].pc = "idle"

\* C13, as claimed: under every interleaving of register and get calls from
\* several threads, once all calls have completed, at most max_items entries
\* are resident and every resident entry's backing file is on disk.
C13_SerializedOutcome ==
    AllCallsDone =>
        /\ Len(registry) <= max_items
        /\ \A a \in Keys(registry) : PathOf(a) \in DOMAIN files

(***************************************************************************)
(* Properties of the image loop and of extractions sharing the cache.      *)
(***************************************************************************)
\* the images of list from position image_pos (0-based) on that extract and
\* register: their PageImage, in the order of the page
RECURSIVE Survivors(_, _, _, _)
Survivors(list, token, page_number, image_pos) ==
    IF image_pos >= Len(list)
    THEN <<>>
    ELSE LET im == list[image_pos + 1]
             rest == Survivors(list, token, page_number, image_pos + 1)
         IN  IF im.outcome = "ok"
             THEN <<PageImage(ImageId(token, page_number, image_pos, im.ext),
                              GuessType(im.ext))>> \o rest
             ELSE rest

\* C21: a page whose images could be enumerated is produced with its text and
\* the status the validator gave it, whatever images failed to extract or to
\* register; its image list holds exactly the images that extracted and
\* registered, in the order of the page.
C21_ImagesIsolated ==
    \A i \in 1..Len(pages) :
        LET page == doc.pages[i]
        IN  page.loadOk /\ page.imagesOk =>
              /\ pages[i].number = i
              /\ pages[i].text = Strip(page.text)
              /\ pages[i].validation_status =
                     ValidatePage(page, i, Strip(page.text)).status
              /\ pages[i].images = Survivors(page.images, file_token, i, 0)

\* C21 witness: a page of three images whose middle image fails to extract is
\* returned with the first and the third
C21_Witness ==
    /\ pc = "returned"
    /\ Len(doc.pages) = 1
    /\ Len(doc.pages[1].images) = 3
    /\ doc.pages[1].images[1].outcome = "ok"
    /\ doc.pages[1].images[2].outcome = "fail"
    /\ doc.pages[1].images[3].outcome = "ok"
    /\ Len(pages) = 1
    /\ Len(pages[1].images) = 2
    /\ pages[1].text = <<"a", " ", "b">>

\* C29, as claimed: while an image id an earlier extraction returned stays
\* resident, a later extraction changes neither the content type nor the bytes
\* it resolves to, whatever token the later extraction is called with.
C29_NoInterference ==
    earlier.done =>
        \A e \in earlier.assets :
            Resident(registry, e.id)
            /\ ~EvictedBetween(log, e.id, earlier.at + 1, Len(log) + 1) =>
                /\ DictGet(registry, e.id).content_type = e.content_type
                /\ DictGet(registry, e.id).path \in DOMAIN files
                /\ files[DictGet(registry, e.id).path] = e.bytes

(***************************************************************************)
(* Properties of get_page_count.                                           *)
(***************************************************************************)
\* C22: get_page_count never raises; for a document that opens it returns the
\* real page count, and reliable exactly when there is a page, the first page
\* loads and, with more than one page, the last page loads; for a document
\* that cannot be opened it returns (0, false).
C22_PageCountProbe ==
    probe.called =>
        /\ ~probe.raised
        /\ IF doc.openOk
           THEN /\ probe.page_count = Len(doc.pages)
                /\ probe.reliable <=>
                      /\ Len(doc.pages) >= 1
                      /\ doc.pages[1].loadOk
                      /\ Len(doc.pages) > 1 => doc.pages[Len(doc.pages)].loadOk
           ELSE probe.page_count = 0 /\ ~probe.reliable

\* C22 witness: two pages, the first loads and the last does not: the real
\* count, not reliable
C22_Witness ==
    /\ probe.called
    /\ doc.openOk
    /\ Len(doc.pages) = 2
    /\ doc.pages[1].loadOk
    /\ ~doc.pages[2].loadOk
    /\ probe.page_count = 2
    /\ ~probe.reliable

(***************************************************************************)
(* Properties of the pages extract returns.                                *)
(***************************************************************************)
\* C23, as claimed: the status recorded in a page equals the status the
\* validator assigned to it; no later step of processing the page revises it.
C23_StatusTerminal ==
    \A i \in 1..Len(pages) :
        doc.pages[i].loadOk =>
            pages[i].validation_status =
                ValidatePage(doc.pages[i], i, Strip(doc.pages[i].text)).status

\* C25, as claimed: when extract returns, get(image.id) finds an entry for
\* every image of every returned page, and the image was registered during
\* the extraction.
C25_ImagesResolvable ==
    Returned =>
        \A i \in 1..Len(pages) : \A k \in 1..Len(pages[i].images) :
            /\ \E n \in Registers(log) : log[n].id = pages[i].images[k].id
            /\ Get(registry, pages[i].images[k].id).ret.found

\* C26, as claimed: with validate true, a returned validation whose is_valid is
\* true comes with no page of status ERROR.
C26_ValidImpliesNoErrorPage ==
    Returned /\ validate /\ validation.is_valid =>
        \A i \in 1..Len(pages) : pages[i].validation_status # "error"

\* C27, as claimed: every returned page of status VALID has has_content true.
C27_ValidHasContent ==
    Returned =>
        \A i \in 1..Len(pages) :
            pages[i].validation_status = "valid" => HasContent(pages[i])

(***************************************************************************)
(* Properties of the asset cache under sequential calls, continued.        *)
(***************************************************************************)
\* every resident entry stores the path base_dir/id and its file is on disk
ResidentBacked ==
    \A i \in 1..Len(registry) :
        /\ registry[i].path = PathOf(registry[i].id)
        /\ registry[i].path \in DOMAIN files

\* this step is a register of an id that was resident before it
ReRegisterStep ==
    /\ Len(log') = Len(log) + 1
    /\ log'[Len(log')].op = "register"
    /\ Resident(registry, log'[Len(log')].id)

\* C28: after every register or get, every resident entry has its backing file
\* on disk at base_dir/id, the path stored in the entry; and a register of an
\* id already resident leaves the resident count as it was and evicts nothing.
C28_ResidentBacked ==
    [][/\ ResidentBacked'
       /\ ReRegisterStep =>
             /\ Len(registry') = Len(registry)
             /\ Keys(registry') = Keys(registry)
             /\ log'[Len(log')].evicted = <<>>]_vars

\* C28 witness: in a full cache of two, the older id registered again: both
\* stay, nothing is evicted
C28_Witness ==
    /\ max_items = 2
    /\ Len(log) = 3
    /\ log[1].op = "register" /\ log[1].id = IdA
    /\ log[2].op = "register" /\ log[2].id = IdB
    /\ log[3].op = "register" /\ log[3].id = IdA
    /\ log[3].evicted = <<>>
    /\ Keys(registry) = {IdA, IdB}
    /\ ResidentBacked

(***************************************************************************)
(* Properties of the TTS audio cache.                                      *)
(***************************************************************************)
Generates(lg) == {i \in 1..Len(lg) : lg[i].op = "generate"}

\* between the calls at i and j the entry of key was not evicted and the file
\* path was not removed
KeptBetween(lg, key, path, i, j) ==
    \A m \in (i + 1)..(j - 1) :
        /\ \A k \in 1..Len(lg[m].evicted) : lg[m].evicted[k] # key
        /\ ~(lg[m].op = "removed" /\ lg[m].path = path)

CachedPaths == {tts_cache[i].path : i \in 1..Len(tts_cache)}

\* C30, as claimed: under every interleaving of generate_audio tasks the cache
\* holds at most cache_size entries, and every file generated with use_cache
\* true is referred to by a cache entry or is no longer on disk.
C30_NoOrphanUnderInterleaving ==
    /\ Len(tts_cache) <= cache_size
    /\ \A f \in 1..Len(made) :
          made[f].saved /\ made[f].use_cache => f \in CachedPaths \/ f \notin tmp_files

====
